---- MODULE Spec2Model ----
(***************************************************************************)
(* StateRail: the run execution engine (apps/api/src/executor.ts), its     *)
(* Store (apps/api/src/db.ts) and the GraphQL mutations that drive them.   *)
(*                                                                         *)
(* The Store is the record `db` of tables, each table a sequence of rows   *)
(* in rowid order (events are kept per run: every query of the code reads  *)
(* them WHERE workflow_run_id = ?).  better-sqlite3 enforces foreign keys  *)
(* by default, so the schema's ON DELETE CASCADE clauses and the foreign   *)
(* key checks of INSERT are part of the Store's behaviour.                 *)
(*                                                                         *)
(* An async function is modelled one action per segment between awaits:    *)
(* every await is a point where another operation may run.                 *)
(***************************************************************************)
EXTENDS Integers, Sequences, FiniteSets, TLC

\* ---------------------------------------------------------------- bounds
\* the number of state-changing mutations (createWorkflow, updateWorkflow,
\* startRun, completeManualStep) a behaviour makes: under Spec, and under SpecRTC
MaxOps == 3
MaxOpsRTC == 4

\* SQL NULL / JS null for ids and timestamps (ids and times are >= 1)
Null == 0

VARIABLES
  db,          \* the SQLite database: tables, the id generator, the clock
  activeRuns,  \* executor.ts: const activeRuns = new Set<string>()
  tasks,       \* per run, the execute(runId) calls that have not been cleaned up
  calls,       \* completeManualStep calls: suspended at an await, or returned
  dirty,       \* runs changed in the Store since the last publish on their topic
  created,     \* per run, the ids of the StepRuns createRun inserted for it
  ops,         \* number of state-changing mutations made
  budget       \* number of state-changing mutations the behaviour may make

vars == <<db, activeRuns, tasks, calls, dirty, created, ops, budget>>

\* the ids createRun has handed out
RunIds == 1..Len(db.workflow_runs)

Terminal(status) == status \in {"SUCCEEDED", "FAILED"}

\* SQL COALESCE(a, b)
COALESCE(a, b) == IF a # Null THEN a ELSE b

MapSeq(Op(_), s) == [i \in 1..Len(s) |-> Op(s[i])]

RECURSIVE SeqToSet(_)
SeqToSet(s) == IF s = <<>> THEN {} ELSE {Head(s)} \cup SeqToSet(Tail(s))

\* ------------------------------------------------------------ Store: reads

\* SELECT * FROM workflows WHERE id = ?  (<<>>: no row)
getWorkflow(d, id) == SelectSeq(d.workflows, LAMBDA w: w.id = id)

\* stable insertion of a row into rows sorted by step_order
RECURSIVE InsertByOrder(_, _)
InsertByOrder(row, sorted) ==
  IF sorted = <<>> THEN <<row>>
  ELSE IF row.order < Head(sorted).order THEN <<row>> \o sorted
  ELSE <<Head(sorted)>> \o InsertByOrder(row, Tail(sorted))

RECURSIVE SortByOrder(_)
SortByOrder(rows) ==
  IF rows = <<>> THEN <<>>
  ELSE InsertByOrder(rows[Len(rows)], SortByOrder(SubSeq(rows, 1, Len(rows) - 1)))

\* r.config ? JSON.parse(r.config) : null
JSONparse(text) == IF text = "" THEN "null" ELSE text

listWorkflowSteps_unsorted(d, workflowId) ==
  MapSeq(LAMBDA r: [r EXCEPT !.config = JSONparse(r.config)],
         SelectSeq(d.workflow_steps, LAMBDA s: s.workflowId = workflowId))

\* SELECT * FROM workflow_steps WHERE workflow_id = ? ORDER BY step_order ASC
listWorkflowSteps(d, workflowId) ==
  MapSeq(LAMBDA r: [r EXCEPT !.config = JSONparse(r.config)],
         SortByOrder(SelectSeq(d.workflow_steps, LAMBDA s: s.workflowId = workflowId)))

getRun(d, id) == SelectSeq(d.workflow_runs, LAMBDA r: r.id = id)

\* SELECT * FROM step_runs WHERE workflow_run_id = ? ORDER BY rowid ASC
listStepRuns(d, runId) == SelectSeq(d.step_runs, LAMBDA s: s.workflowRunId = runId)

getStepRunById(d, id) == SelectSeq(d.step_runs, LAMBDA s: s.id = id)

\* SELECT * FROM events WHERE workflow_run_id = ? ORDER BY created_at ASC
listEvents(d, runId) == d.events[runId]

\* Object.fromEntries(list.map(s => [s.workflowStepId, s]))[stepId]:
\* the last row of the list with that key, <<>> when there is none
lookupStepRun(list, stepId) ==
  LET hits == SelectSeq(list, LAMBDA s: s.workflowStepId = stepId)
  IN IF hits = <<>> THEN <<>> ELSE <<hits[Len(hits)]>>

getStepRunsMap(d, runId) == listStepRuns(d, runId)

\* ----------------------------------------------------------- Store: writes

\* now(): the clock read for a change of run runId; it advances with every
\* event appended for that run
now(d, runId) == d.clock[runId]

setStatus_overwrites(row, status, t) ==
  [row EXCEPT !.status = status,
              !.startedAt = IF status = "RUNNING" THEN t ELSE @,
              !.finishedAt = IF Terminal(status) THEN t ELSE @]

setStatus_noCoalesce(row, status, t) ==
  [row EXCEPT !.status = status,
              !.startedAt = IF status = "RUNNING" THEN t ELSE Null,
              !.finishedAt = IF Terminal(status) THEN t ELSE Null]

\* SET status = ?, started_at = COALESCE(started_at, ?),
\*     finished_at = COALESCE(finished_at, ?)
setStatus(row, status, t) ==
  [row EXCEPT !.status = status,
              !.startedAt = COALESCE(@, IF status = "RUNNING" THEN t ELSE Null),
              !.finishedAt = COALESCE(@, IF Terminal(status) THEN t ELSE Null)]

updateRunStatus_everyRun(d, runId, status) ==
  [d EXCEPT !.workflow_runs = MapSeq(LAMBDA r: setStatus(r, status, now(d, runId)), @)]

updateRunStatus(d, runId, status) ==
  [d EXCEPT !.workflow_runs =
     MapSeq(LAMBDA r: IF r.id = runId THEN setStatus(r, status, now(d, runId)) ELSE r, @)]

updateStepRunStatus_statusOnly(d, stepRunId, status) ==
  [d EXCEPT !.step_runs =
     MapSeq(LAMBDA s: IF s.id = stepRunId THEN [s EXCEPT !.status = status] ELSE s, @)]

updateStepRunStatus(d, stepRunId, status) ==
  [d EXCEPT !.step_runs =
     MapSeq(LAMBDA s: IF s.id = stepRunId
                      THEN setStatus(s, status, now(d, s.workflowRunId)) ELSE s, @)]

Event(runId, stepRunId, type, message) ==
  [workflowRunId |-> runId, stepRunId |-> stepRunId, type |-> type, message |-> message]

\* the INSERT violates a foreign key: the run or the step run row is gone
appendEventThrows(d, ev) ==
  \/ getRun(d, ev.workflowRunId) = <<>>
  \/ ev.stepRunId # Null /\ getStepRunById(d, ev.stepRunId) = <<>>

appendEvent(d, ev) ==
  [d EXCEPT !.events[ev.workflowRunId] = Append(@, ev),
            !.clock[ev.workflowRunId] = @ + 1]

\* JSON.stringify(s.config ?? {})
JSONstringify(config) == IF config = "undefined" THEN "{}" ELSE config

RECURSIVE insertSteps(_, _, _)
\* input.steps.forEach(s => insertStep.run(s.id ?? nanoid(), ...))
insertSteps(d, workflowId, steps) ==
  IF steps = <<>> THEN d
  ELSE LET s == Head(steps)
           fresh == s.id = Null
           row == [id |-> IF fresh THEN d.nextStepId ELSE s.id,
                   workflowId |-> workflowId, name |-> s.name, type |-> s.type,
                   config |-> JSONstringify(s.config), order |-> s.order]
       IN insertSteps([d EXCEPT !.workflow_steps = Append(@, row),
                                !.nextStepId = IF fresh THEN @ + 1 ELSE @],
                      workflowId, Tail(steps))

createWorkflow(d, steps) ==
  insertSteps([d EXCEPT !.workflows = Append(@, [id |-> d.nextWorkflowId]),
                        !.nextWorkflowId = @ + 1],
              d.nextWorkflowId, steps)

\* DELETE FROM workflow_steps WHERE workflow_id = ?, with the cascades of the
\* schema: step_runs.workflow_step_id and events.step_run_id
deleteSteps(d, workflowId) ==
  LET goneSteps == {s.id : s \in {t \in SeqToSet(d.workflow_steps) : t.workflowId = workflowId}}
      goneStepRuns == {s.id : s \in {t \in SeqToSet(d.step_runs) : t.workflowStepId \in goneSteps}}
  IN [d EXCEPT !.workflow_steps = SelectSeq(@, LAMBDA s: s.workflowId # workflowId),
               !.step_runs = SelectSeq(@, LAMBDA s: s.workflowStepId \notin goneSteps),
               !.events = [r \in DOMAIN @ |->
                            SelectSeq(@[r], LAMBDA e: e.stepRunId \notin goneStepRuns)]]

\* an INSERT of the transaction hits PRIMARY KEY(id): the transaction rolls back
RECURSIVE insertStepsThrows(_, _)
insertStepsThrows(d, steps) ==
  IF steps = <<>> THEN FALSE
  ELSE \/ /\ Head(steps).id # Null
          /\ \/ \E t \in SeqToSet(d.workflow_steps) : t.id = Head(steps).id
             \/ \E i \in 2..Len(steps) : steps[i].id = Head(steps).id
       \/ insertStepsThrows(d, Tail(steps))

updateWorkflow_keepsSteps(d, workflowId, steps) == insertSteps(d, workflowId, steps)

updateWorkflow(d, workflowId, steps) ==
  insertSteps(deleteSteps(d, workflowId), workflowId, steps)

RECURSIVE insertStepRuns(_, _, _)
insertStepRuns(d, runId, steps) ==
  IF steps = <<>> THEN d
  ELSE insertStepRuns(
         [d EXCEPT !.step_runs = Append(@, [id |-> d.nextStepRunId, workflowRunId |-> runId,
                                             workflowStepId |-> Head(steps).id,
                                             status |-> "PENDING",
                                             startedAt |-> Null, finishedAt |-> Null]),
                   !.nextStepRunId = @ + 1],
         runId, Tail(steps))

createRunThrows_noForeignKey(d, workflowId) == FALSE

\* the INSERT INTO workflow_runs violates FOREIGN KEY (workflow_id)
createRunThrows(d, workflowId) == getWorkflow(d, workflowId) = <<>>

createRun_noStepRuns(d, workflowId) ==
  [d EXCEPT !.workflow_runs = Append(@, [id |-> d.nextRunId, workflowId |-> workflowId,
                                         status |-> "PENDING",
                                         startedAt |-> Null, finishedAt |-> Null]),
            !.events = Append(@, <<>>),
            !.clock = Append(@, 1),
            !.nextRunId = @ + 1]

createRun(d, workflowId) ==
  LET id == d.nextRunId
      d1 == [d EXCEPT !.workflow_runs = Append(@, [id |-> id, workflowId |-> workflowId,
                                                    status |-> "PENDING",
                                                    startedAt |-> Null, finishedAt |-> Null]),
                      !.events = Append(@, <<>>),
                      !.clock = Append(@, 1),
                      !.nextRunId = @ + 1]
  IN insertStepRuns(d1, id, listWorkflowSteps(d1, workflowId))

\* ---------------------------------------------------------------- Executor

\* the part of the program state the Executor reads and writes
State ==
  [db |-> db, activeRuns |-> activeRuns, tasks |-> tasks, calls |-> calls, dirty |-> dirty,
   created |-> created]

SetState(S) ==
  /\ db' = S.db
  /\ activeRuns' = S.activeRuns
  /\ tasks' = S.tasks
  /\ calls' = S.calls
  /\ dirty' = S.dirty
  /\ created' = S.created

\* a change of run runId in the Store that subscribers have not been told of;
\* an UPDATE that matched no row changed nothing
touch(S, d, runId) ==
  [S EXCEPT !.db = d, !.dirty = IF d = S.db THEN @ ELSE @ \cup {runId}]

\* await pubsub.publish(`runUpdated:${runId}`, [{ runId }])
publishRun(S, runId) == [S EXCEPT !.dirty = @ \ {runId}]

Task(pc, workflowId, steps, stepRunMap, i) ==
  [pc |-> pc, workflowId |-> workflowId, steps |-> steps, stepRunMap |-> stepRunMap, i |-> i]

\* execute() has returned or thrown; its finally callback has not run yet
Settled(t) == [t EXCEPT !.pc = "settled"]

setTask(S, runId, k, t) == [S EXCEPT !.tasks[runId][k] = t]

\* execute(runId) up to its first await (lines 30-37)
executeStart(S, runId) ==
  LET run == getRun(S.db, runId)
      wf == IF run = <<>> THEN <<>> ELSE getWorkflow(S.db, run[1].workflowId)
  IN IF run = <<>> \/ wf = <<>>
     THEN [S EXCEPT !.tasks[runId] = Append(@, Task("settled", Null, <<>>, <<>>, 0))]
     ELSE LET d1 == updateRunStatus(S.db, runId, "RUNNING")
              d2 == appendEvent(d1, Event(runId, Null, "RUN_STARTED", "Run started"))
              S1 == publishRun(touch(S, d2, runId), runId)
          IN [S1 EXCEPT !.tasks[runId] =
                Append(@, Task("loadSteps", wf[1].id, <<>>, <<>>, 0))]

enqueueRun_noGuard(S, runId) ==
  executeStart([S EXCEPT !.activeRuns = @ \cup {runId}], runId)

\* if (activeRuns.has(runId)) return; activeRuns.add(runId); execute(runId)...
enqueueRun(S, runId) ==
  IF runId \in S.activeRuns THEN S
  ELSE executeStart([S EXCEPT !.activeRuns = @ \cup {runId}], runId)

\* runNonManualStep up to its first await (lines 85-92); the INSERT of the
\* event throws when the step run row is gone, and the throw leaves execute
runNonManualStepStart(S, runId, k, t, stepRun) ==
  LET d1 == updateStepRunStatus(S.db, stepRun.id, "RUNNING")
      ev == Event(runId, stepRun.id, "STEP_STARTED", "Step started")
  IN IF appendEventThrows(d1, ev)
     THEN setTask(S, runId, k, Settled(t))
     ELSE setTask(publishRun(touch(S, appendEvent(d1, ev), runId), runId),
                  runId, k, [t EXCEPT !.pc = "handler"])

executeSucceed_noEvent(S, runId, k, t) ==
  LET d1 == updateRunStatus(S.db, runId, "SUCCEEDED")
  IN setTask(publishRun(touch(S, d1, runId), runId), runId, k, Settled(t))

\* updateRunStatus(runId, "SUCCEEDED"); appendEvent(RUN_SUCCEEDED); publish
executeSucceed(S, runId, k, t) ==
  LET d1 == updateRunStatus(S.db, runId, "SUCCEEDED")
      d2 == appendEvent(d1, Event(runId, Null, "RUN_SUCCEEDED", "Run succeeded"))
  IN setTask(publishRun(touch(S, d2, runId), runId), runId, k, Settled(t))

\* the "Run already failed" branch (lines 46-55): no publish
executeAlreadyFailed(S, runId, k, t, stepRun) ==
  LET d1 == updateRunStatus(S.db, runId, "FAILED")
      ev == Event(runId, stepRun.id, "RUN_FAILED", "Run already failed")
  IN IF appendEventThrows(d1, ev)
     THEN setTask(touch(S, d1, runId), runId, k, Settled(t))
     ELSE setTask(touch(S, appendEvent(d1, ev), runId), runId, k, Settled(t))

executeManual_setsRunning(S, runId, k, t, step, stepRun) ==
  LET d1 == updateStepRunStatus(S.db, stepRun.id, "RUNNING")
      ev == Event(runId, stepRun.id, "STEP_STARTED", "Manual step awaiting completion")
  IN IF stepRun.status # "PENDING" \/ appendEventThrows(S.db, ev)
     THEN setTask(S, runId, k, Settled(t))
     ELSE setTask(publishRun(touch(S, appendEvent(d1, ev), runId), runId),
                  runId, k, Settled(t))

\* the MANUAL branch (lines 57-68)
executeManual(S, runId, k, t, step, stepRun) ==
  LET ev == Event(runId, stepRun.id, "STEP_STARTED", "Manual step awaiting completion")
  IN IF stepRun.status # "PENDING" \/ appendEventThrows(S.db, ev)
     THEN setTask(S, runId, k, Settled(t))
     ELSE setTask(publishRun(touch(S, appendEvent(S.db, ev), runId), runId),
                  runId, k, Settled(t))

RECURSIVE executeLoop(_, _, _, _)
\* for (const step of steps) from index t.i, up to the next await or return;
\* t.steps and t.stepRunMap are what the pass loaded at lines 39-40
executeLoop(S, runId, k, t) ==
  IF t.i > Len(t.steps) THEN executeSucceed(S, runId, k, t)
  ELSE LET step == t.steps[t.i]
           stepRun == lookupStepRun(t.stepRunMap, step.id)
       IN IF stepRun = <<>> \/ (stepRun # <<>> /\ stepRun[1].status = "SUCCEEDED")
          THEN executeLoop(S, runId, k, [t EXCEPT !.i = @ + 1])
          ELSE IF stepRun[1].status = "FAILED"
          THEN executeAlreadyFailed(S, runId, k, t, stepRun[1])
          ELSE IF step.type = "MANUAL"
          THEN executeManual(S, runId, k, t, step, stepRun[1])
          ELSE runNonManualStepStart(S, runId, k, t, stepRun[1])

\* lines 39-40, then the loop
executeLoadSteps(S, runId, k, t) ==
  executeLoop(S, runId, k,
              [t EXCEPT !.steps = listWorkflowSteps(S.db, t.workflowId),
                        !.stepRunMap = getStepRunsMap(S.db, runId),
                        !.i = 1])

\* what the handler of a step can do: sleep() resolves; an HTTP step with no url
\* throws, with a url fetch resolves ok, resolves non-2xx or rejects
HandlerOutcomes(step) ==
  IF step.type = "HTTP"
  THEN IF step.config = "{url}" THEN {"ok", "throw"} ELSE {"throw"}
  ELSE {"ok"}

\* the catch block (lines 113-124)
runNonManualStepCatch(S, runId, k, t, stepRun) ==
  LET d1 == updateStepRunStatus(S.db, stepRun.id, "FAILED")
      ev == Event(runId, stepRun.id, "STEP_FAILED", "Step failed")
      d2 == appendEvent(d1, ev)
      d3 == updateRunStatus(d2, runId, "FAILED")
      d4 == appendEvent(d3, Event(runId, Null, "RUN_FAILED", "Run failed"))
  IN IF appendEventThrows(d1, ev)
     THEN setTask(S, runId, k, Settled(t))
     ELSE setTask(publishRun(touch(S, d4, runId), runId), runId, k,
                  [t EXCEPT !.pc = "afterStep"])

runNonManualStepTry_leavesRunning(S, runId, k, t, stepRun) ==
  LET ev == Event(runId, stepRun.id, "STEP_SUCCEEDED", "Step succeeded")
  IN IF appendEventThrows(S.db, ev)
     THEN runNonManualStepCatch(S, runId, k, t, stepRun)
     ELSE setTask(publishRun(touch(S, appendEvent(S.db, ev), runId), runId), runId, k,
                  [t EXCEPT !.pc = "afterStep"])

\* the try block after the handler returned (lines 105-112); a throw of the
\* INSERT is caught by the catch block
runNonManualStepTry(S, runId, k, t, stepRun) ==
  LET d1 == updateStepRunStatus(S.db, stepRun.id, "SUCCEEDED")
      ev == Event(runId, stepRun.id, "STEP_SUCCEEDED", "Step succeeded")
  IN IF appendEventThrows(d1, ev)
     THEN runNonManualStepCatch(touch(S, d1, runId), runId, k, t, stepRun)
     ELSE setTask(publishRun(touch(S, appendEvent(d1, ev), runId), runId), runId, k,
                  [t EXCEPT !.pc = "afterStep"])

executeAfterStep_returns(S, runId, k, t) == setTask(S, runId, k, Settled(t))

\* if (getRun(runId)?.status === "FAILED") return; else the loop goes on
executeAfterStep(S, runId, k, t) ==
  LET run == getRun(S.db, runId)
  IN IF run # <<>> /\ run[1].status = "FAILED"
     THEN setTask(S, runId, k, Settled(t))
     ELSE executeLoop(S, runId, k, [t EXCEPT !.i = @ + 1])

RemoveAt(s, k) == [j \in 1..(Len(s) - 1) |-> IF j < k THEN s[j] ELSE s[j + 1]]

executeFinally_keepsActive(S, runId, k) == [S EXCEPT !.tasks[runId] = RemoveAt(@, k)]

\* .finally(() => activeRuns.delete(runId))
executeFinally(S, runId, k) ==
  [S EXCEPT !.tasks[runId] = RemoveAt(@, k), !.activeRuns = @ \ {runId}]

\* ---------------------------------------------------------------- mutations

\* what a mutation leaves and answers: S the state at its first await or at its
\* return, threw whether it ended with an error, returned whether it has
\* returned (value is then what it returned)
Result(S, threw, returned, value) ==
  [S |-> S, threw |-> threw, returned |-> returned, value |-> value]

Call(stepRun, success, pc, value) ==
  [stepRunId |-> stepRun.id, workflowRunId |-> stepRun.workflowRunId,
   success |-> success, pc |-> pc, value |-> value]

SameArgs(c, stepRunId, success) == c.stepRunId = stepRunId /\ c.success = success

completeManualStep_noNotFound(S, stepRunId, success) ==
  LET stepRun == getStepRunById(S.db, stepRunId)
  IN IF stepRun = <<>> THEN Result(S, FALSE, TRUE, <<>>)
     ELSE IF Terminal(stepRun[1].status) THEN Result(S, FALSE, TRUE, stepRun)
     ELSE
       LET runId == stepRun[1].workflowRunId
           d1 == updateStepRunStatus(S.db, stepRunId, IF success THEN "SUCCEEDED" ELSE "FAILED")
           d2 == appendEvent(d1, Event(runId, stepRunId,
                                       IF success THEN "STEP_SUCCEEDED" ELSE "STEP_FAILED",
                                       IF success THEN "Manual step completed"
                                                  ELSE "Manual step failed"))
           S1 == publishRun(touch(S, d2, runId), runId)
       IN Result([S1 EXCEPT !.calls = {c \in @ : ~SameArgs(c, stepRunId, success)}
                                      \cup {Call(stepRun[1], success, "published", <<>>)}],
                 FALSE, FALSE, <<>>)

\* completeManualStep(stepRunId, success) up to its first await (lines 128-139)
completeManualStep(S, stepRunId, success) ==
  LET stepRun == getStepRunById(S.db, stepRunId)
  IN IF stepRun = <<>> THEN Result(S, TRUE, TRUE, <<>>)
     ELSE IF Terminal(stepRun[1].status) THEN Result(S, FALSE, TRUE, stepRun)
     ELSE
       LET runId == stepRun[1].workflowRunId
           d1 == updateStepRunStatus(S.db, stepRunId, IF success THEN "SUCCEEDED" ELSE "FAILED")
           d2 == appendEvent(d1, Event(runId, stepRunId,
                                       IF success THEN "STEP_SUCCEEDED" ELSE "STEP_FAILED",
                                       IF success THEN "Manual step completed"
                                                  ELSE "Manual step failed"))
           S1 == publishRun(touch(S, d2, runId), runId)
       IN Result([S1 EXCEPT !.calls = {c \in @ : ~SameArgs(c, stepRunId, success)}
                                      \cup {Call(stepRun[1], success, "published", <<>>)}],
                 FALSE, FALSE, <<>>)

completeManualStepFail_enqueues(S, runId) ==
  LET d1 == updateRunStatus(S.db, runId, "FAILED")
      ev == Event(runId, Null, "RUN_FAILED", "Run failed by manual step")
  IN enqueueRun(publishRun(touch(S, appendEvent(d1, ev), runId), runId), runId)

\* the branch if (!success) up to its await (lines 141-148)
completeManualStepFail(S, runId) ==
  LET d1 == updateRunStatus(S.db, runId, "FAILED")
      ev == Event(runId, Null, "RUN_FAILED", "Run failed by manual step")
  IN publishRun(touch(S, appendEvent(d1, ev), runId), runId)

\* completeManualStep after its first await: lines 141-148, or line 153
completeManualStepFinish(S, c) ==
  LET S1 == IF c.success THEN enqueueRun(S, c.workflowRunId)
                         ELSE completeManualStepFail(S, c.workflowRunId)
  IN [S1 EXCEPT !.calls = (@ \ {c}) \cup {[c EXCEPT !.pc = "returning"]}]

\* return getStepRunById(stepRunId) (lines 149, 154)
completeManualStepReturn(S, c) ==
  [S EXCEPT !.calls = (@ \ {c}) \cup
     {[c EXCEPT !.pc = "returned", !.value = getStepRunById(S.db, c.stepRunId)]}]

startRun_noEnqueuedEvent(S, workflowId) ==
  IF createRunThrows(S.db, workflowId) THEN Result(S, TRUE, TRUE, <<>>)
  ELSE LET runId == S.db.nextRunId
           d1 == createRun(S.db, workflowId)
           S1 == [S EXCEPT !.created = Append(@, {s.id : s \in SeqToSet(listStepRuns(d1, runId))}),
                           !.tasks = Append(@, <<>>)]
       IN Result(enqueueRun(touch(S1, d1, runId), runId), FALSE, TRUE, getRun(d1, runId))

\* Mutation.startRun (part_000 lines 121-130): createRun, appendEvent, enqueueRun
startRun(S, workflowId) ==
  IF createRunThrows(S.db, workflowId) THEN Result(S, TRUE, TRUE, <<>>)
  ELSE LET runId == S.db.nextRunId
           d1 == createRun(S.db, workflowId)
           d2 == appendEvent(d1, Event(runId, Null, "RUN_STARTED", "Run enqueued"))
           S1 == [S EXCEPT !.created = Append(@, {s.id : s \in SeqToSet(listStepRuns(d1, runId))}),
                           !.tasks = Append(@, <<>>)]
       IN Result(enqueueRun(touch(S1, d2, runId), runId), FALSE, TRUE, getRun(d1, runId))

\* Mutation.updateWorkflow: db.ts updateWorkflow with its checks
updateWorkflowMutation(S, workflowId, steps) ==
  IF \/ getWorkflow(S.db, workflowId) = <<>>
     \/ insertStepsThrows(deleteSteps(S.db, workflowId), steps)
  THEN Result(S, TRUE, TRUE, <<>>)
  ELSE LET d1 == updateWorkflow(S.db, workflowId, steps)
       IN Result([S EXCEPT !.db = d1], FALSE, TRUE, listWorkflowSteps(d1, workflowId))

\* Mutation.createWorkflow
createWorkflowMutation(S, steps) ==
  LET d1 == createWorkflow(S.db, steps)
  IN Result([S EXCEPT !.db = d1], FALSE, TRUE, listWorkflowSteps(d1, S.db.nextWorkflowId))

\* ------------------------------------------------------------------ inputs

StepInput(name, type, config, order) ==
  [id |-> Null, name |-> name, type |-> type, config |-> config, order |-> order]

\* the step lists createWorkflow is called with
StepLists ==
  { <<>>,
    <<StepInput("a", "DELAY", "{seconds:0}", 0), StepInput("b", "HTTP", "{url}", 1)>>,
    <<StepInput("a", "DELAY", "{seconds:0}", 0), StepInput("b", "MANUAL", "undefined", 1),
      StepInput("c", "DELAY", "undefined", 2)>>,
    <<StepInput("b", "MANUAL", "undefined", 1), StepInput("a", "DELAY", "{seconds:0}", 0)>>,
    <<StepInput("a", "HTTP", "undefined", 0)>> }

\* the step lists updateWorkflow is called with
UpdateLists ==
  { <<StepInput("a", "DELAY", "{seconds:0}", 0)>>,
    <<StepInput("b", "MANUAL", "undefined", 1), StepInput("a", "DELAY", "{seconds:0}", 0)>> }

\* the input steps, the i-th carrying the id of the workflow's i-th step
WithIds(steps, existing) ==
  [i \in 1..Len(steps) |->
     IF i <= Len(existing) THEN [steps[i] EXCEPT !.id = existing[i].id] ELSE steps[i]]

\* the ids a caller may name: those handed out, and one that was not
WorkflowIdInputs == 1..db.nextWorkflowId
StepRunIdInputs == 1..db.nextStepRunId

\* ------------------------------------------------------------------- state

InitState ==
  /\ db = [workflows |-> <<>>, workflow_steps |-> <<>>, workflow_runs |-> <<>>,
           step_runs |-> <<>>, events |-> <<>>, clock |-> <<>>,
           nextWorkflowId |-> 1, nextStepId |-> 1, nextRunId |-> 1, nextStepRunId |-> 1]
  /\ activeRuns = {}
  /\ tasks = <<>>
  /\ calls = {}
  /\ dirty = {}
  /\ created = <<>>
  /\ ops = 0

Init == InitState /\ budget = MaxOps

\* a mutation is made: one that changes the state counts against MaxOps
Mutate(res) ==
  /\ res.S # State => ops < budget
  /\ SetState(res.S)
  /\ ops' = IF res.S # State THEN ops + 1 ELSE ops
  /\ UNCHANGED budget

CreateWorkflow(steps) == Mutate(createWorkflowMutation(State, steps))

UpdateWorkflow(workflowId, list, keepIds) ==
  Mutate(updateWorkflowMutation(State, workflowId,
           IF keepIds THEN WithIds(list, listWorkflowSteps(db, workflowId)) ELSE list))

StartRun(workflowId) == Mutate(startRun(State, workflowId))

CompleteManualStep(stepRunId, success) ==
  /\ \A c \in calls : SameArgs(c, stepRunId, success) => c.pc = "returned"
  /\ Mutate(completeManualStep(State, stepRunId, success))

CompleteManualStepFinish(c) ==
  /\ c.pc = "published"
  /\ SetState(completeManualStepFinish(State, c))
  /\ UNCHANGED <<ops, budget>>

CompleteManualStepReturn(c) ==
  /\ c.pc = "returning"
  /\ SetState(completeManualStepReturn(State, c))
  /\ UNCHANGED <<ops, budget>>

\* execute resumes after await publishRun (line 37)
ExecuteLoadSteps(runId, k) ==
  /\ tasks[runId][k].pc = "loadSteps"
  /\ SetState(executeLoadSteps(State, runId, k, tasks[runId][k]))
  /\ UNCHANGED <<ops, budget>>

\* the handler of the step in progress settles (lines 94-124)
ExecuteHandler(runId, k, outcome) ==
  /\ tasks[runId][k].pc = "handler"
  /\ LET t == tasks[runId][k]
         step == t.steps[t.i]
         stepRun == lookupStepRun(t.stepRunMap, step.id)[1]
     IN /\ outcome \in HandlerOutcomes(step)
        /\ SetState(IF outcome = "ok" THEN runNonManualStepTry(State, runId, k, t, stepRun)
                                      ELSE runNonManualStepCatch(State, runId, k, t, stepRun))
  /\ UNCHANGED <<ops, budget>>

\* execute resumes after await runNonManualStep (line 71)
ExecuteAfterStep(runId, k) ==
  /\ tasks[runId][k].pc = "afterStep"
  /\ SetState(executeAfterStep(State, runId, k, tasks[runId][k]))
  /\ UNCHANGED <<ops, budget>>

\* the finally callback of enqueueRun (line 26)
ExecuteFinally(runId, k) ==
  /\ tasks[runId][k].pc = "settled"
  /\ SetState(executeFinally(State, runId, k))
  /\ UNCHANGED <<ops, budget>>

Next ==
  \/ \E steps \in StepLists : CreateWorkflow(steps)
  \/ \E w \in WorkflowIdInputs, steps \in UpdateLists, keepIds \in BOOLEAN :
       UpdateWorkflow(w, steps, keepIds)
  \/ \E w \in WorkflowIdInputs : StartRun(w)
  \/ \E id \in StepRunIdInputs, success \in BOOLEAN : CompleteManualStep(id, success)
  \/ \E c \in calls : CompleteManualStepFinish(c)
  \/ \E c \in calls : CompleteManualStepReturn(c)
  \/ \E r \in RunIds : \E k \in 1..Len(tasks[r]) : ExecuteLoadSteps(r, k)
  \/ \E r \in RunIds : \E k \in 1..Len(tasks[r]), o \in {"ok", "throw"} : ExecuteHandler(r, k, o)
  \/ \E r \in RunIds : \E k \in 1..Len(tasks[r]) : ExecuteAfterStep(r, k)
  \/ \E r \in RunIds : \E k \in 1..Len(tasks[r]) : ExecuteFinally(r, k)

Spec == Init /\ [][Next]_vars

\* Node runs a callback and the microtasks it queues to completion before the
\* next callback: a continuation after an await of publishRun, of enqueueRun or
\* of runNonManualStep, and a finally callback, are microtasks; a request and
\* the end of sleep() or fetch() are callbacks.
MicrotaskPending ==
  \/ \E c \in calls : c.pc \in {"published", "returning"}
  \/ \E r \in RunIds : \E k \in 1..Len(tasks[r]) :
       \/ tasks[r][k].pc \in {"loadSteps", "afterStep", "settled"}
       \/ /\ tasks[r][k].pc = "handler"
          /\ HandlerOutcomes(tasks[r][k].steps[tasks[r][k].i]) = {"throw"}

\* the handler of task k of run runId ends in a callback (a timer, a response)
HandlerIsCallback(runId, k) ==
  /\ tasks[runId][k].pc = "handler"
  /\ HandlerOutcomes(tasks[runId][k].steps[tasks[runId][k].i]) # {"throw"}

NextRTC ==
  \/ /\ ~MicrotaskPending
     /\ \/ \E steps \in StepLists : CreateWorkflow(steps)
        \/ \E w \in WorkflowIdInputs, steps \in UpdateLists, keepIds \in BOOLEAN :
             UpdateWorkflow(w, steps, keepIds)
        \/ \E w \in WorkflowIdInputs : StartRun(w)
        \/ \E id \in StepRunIdInputs, success \in BOOLEAN : CompleteManualStep(id, success)
        \/ \E r \in RunIds : \E k \in 1..Len(tasks[r]), o \in {"ok", "throw"} :
             HandlerIsCallback(r, k) /\ ExecuteHandler(r, k, o)
  \/ \E c \in calls : CompleteManualStepFinish(c)
  \/ \E c \in calls : CompleteManualStepReturn(c)
  \/ \E r \in RunIds : \E k \in 1..Len(tasks[r]) : ExecuteLoadSteps(r, k)
  \/ \E r \in RunIds : \E k \in 1..Len(tasks[r]), o \in {"ok", "throw"} :
       ~HandlerIsCallback(r, k) /\ ExecuteHandler(r, k, o)
  \/ \E r \in RunIds : \E k \in 1..Len(tasks[r]) : ExecuteAfterStep(r, k)
  \/ \E r \in RunIds : \E k \in 1..Len(tasks[r]) : ExecuteFinally(r, k)

\* the program with requests and handler completions run to completion
InitRTC == InitState /\ budget = MaxOpsRTC

SpecRTC == InitRTC /\ [][NextRTC]_vars

\* A continuation is queued: a call or a pass waits at an await.  Each of these
\* state predicates is equal to ENABLED <<A>>_vars of the step A that runs the
\* continuation (the step is possible whenever the continuation is queued, and
\* it moves the call or the task on).
FinishPending == \E c \in calls : c.pc = "published"

LoadStepsPending ==
  \E r \in RunIds : \E k \in 1..Len(tasks[r]) : tasks[r][k].pc = "loadSteps"

HandlerPending ==
  \E r \in RunIds : \E k \in 1..Len(tasks[r]) : tasks[r][k].pc = "handler"

AfterStepPending ==
  \E r \in RunIds : \E k \in 1..Len(tasks[r]) : tasks[r][k].pc = "afterStep"

\* The event loop runs every queued continuation (the code after an await, a
\* finally callback), every timer fires and every fetch settles: weak fairness
\* of each of these steps.  For four of them WF_vars(A) is written out as
\* []<>(~ENABLED <<A>>_vars) \/ []<><<A>>_vars with the state predicate above
\* for ENABLED <<A>>_vars.
Fairness ==
  /\ \/ []<>(~FinishPending)
     \/ []<><<\E c \in calls : CompleteManualStepFinish(c)>>_vars
  /\ WF_vars(\E c \in calls : CompleteManualStepReturn(c))
  /\ \/ []<>(~LoadStepsPending)
     \/ []<><<\E r \in RunIds : \E k \in 1..Len(tasks[r]) : ExecuteLoadSteps(r, k)>>_vars
  /\ \/ []<>(~HandlerPending)
     \/ []<><<\E r \in RunIds : \E k \in 1..Len(tasks[r]), o \in {"ok", "throw"} :
                ExecuteHandler(r, k, o)>>_vars
  /\ \/ []<>(~AfterStepPending)
     \/ []<><<\E r \in RunIds : \E k \in 1..Len(tasks[r]) : ExecuteAfterStep(r, k)>>_vars
  /\ WF_vars(\E r \in RunIds : \E k \in 1..Len(tasks[r]) : ExecuteFinally(r, k))

\* the program under an event loop that leaves no continuation waiting for ever
SpecFair == Init /\ [][Next]_vars /\ Fairness

\* ------------------------------------------------------------------ claims

Runs == SeqToSet(db.workflow_runs)

StepRunsOf(runId) == SeqToSet(listStepRuns(db, runId))

RunEndTypes == {"RUN_SUCCEEDED", "RUN_FAILED"}

StepEndTypes == {"STEP_SUCCEEDED", "STEP_FAILED"}

\* the run of call c has nothing in flight: no execute task, no suspended call
Quiescent(runId) ==
  /\ tasks[runId] = <<>>
  /\ \A c \in calls : c.workflowRunId = runId => c.pc = "returned"

\* every StepRun createRun made for run runId is still stored
Intact(runId) == created[runId] = {s.id : s \in StepRunsOf(runId)}

\* the StepRun of run runId that belongs to a MANUAL step and is PENDING
PendingManual(runId) ==
  {s \in StepRunsOf(runId) :
     /\ s.status = "PENDING"
     /\ \E st \in SeqToSet(db.workflow_steps) : st.id = s.workflowStepId /\ st.type = "MANUAL"}

C1_OneTaskPerRun ==
  \A r \in RunIds : Len(tasks[r]) <= 1 /\ (tasks[r] # <<>> => r \in activeRuns)

\* the step is line 153 of the call c: enqueueRun(stepRun.workflowRunId)
C1_IsEnqueueOf(c) ==
  /\ c \in calls /\ c.pc = "published" /\ c.success
  /\ c \notin calls' /\ [c EXCEPT !.pc = "returning"] \in calls'

\* C1: for every run at most one execute task exists at any moment, whatever the
\* calls of enqueueRun, and an enqueueRun of a run that is in the active set
\* starts no task and changes nothing of the Store, the tasks or the active set.
C1_EnqueueIdempotent ==
  /\ []C1_OneTaskPerRun
  /\ [][\A c \in calls :
          C1_IsEnqueueOf(c) /\ c.workflowRunId \in activeRuns
            => UNCHANGED <<db, activeRuns, tasks, dirty>>]_vars

\* a successful completeManualStep has called enqueueRun and is returning, and
\* the run's only pass is still the one startRun began (one "Run started" event
\* and its task alive): that enqueueRun found the run in the active set
C1_Witness ==
  \E c \in calls :
    /\ c.pc = "returning" /\ c.success
    /\ c.workflowRunId \in activeRuns
    /\ Len(tasks[c.workflowRunId]) = 1
    /\ Cardinality({i \in 1..Len(listEvents(db, c.workflowRunId)) :
                      listEvents(db, c.workflowRunId)[i].message = "Run started"}) = 1

\* C2: once a run's status is SUCCEEDED or FAILED no step changes it.
C2_RunTerminalAbsorbing ==
  [][\A i \in 1..Len(db.workflow_runs) :
       Terminal(db.workflow_runs[i].status)
         => db'.workflow_runs[i].status = db.workflow_runs[i].status]_vars

\* C3: once the log of a run holds a RUN_SUCCEEDED or RUN_FAILED event, no step
\* appends an event to it.
C3_NoEventAfterRunEnd ==
  [][\A r \in RunIds :
       (\E i \in 1..Len(listEvents(db, r)) : listEvents(db, r)[i].type \in RunEndTypes)
         => Len(listEvents(db', r)) <= Len(listEvents(db, r))]_vars

\* C4: the log of every run starts with RUN_STARTED, and when the run's status
\* is terminal the log holds exactly one RUN_SUCCEEDED/RUN_FAILED event, its last.
C4_LogShape ==
  \A run \in Runs :
    LET log == listEvents(db, run.id)
    IN /\ log # <<>> /\ log[1].type = "RUN_STARTED"
       /\ Terminal(run.status)
            => /\ Cardinality({i \in 1..Len(log) : log[i].type \in RunEndTypes}) = 1
               /\ log[Len(log)].type \in RunEndTypes

\* C5: every STEP_SUCCEEDED or STEP_FAILED event of a log has an earlier
\* STEP_STARTED event of the same StepRun in that log.
C5_StepEndHasStart ==
  \A r \in RunIds :
    LET log == listEvents(db, r)
    IN \A i \in 1..Len(log) :
         log[i].type \in StepEndTypes
           => \E j \in 1..(i - 1) :
                log[j].type = "STEP_STARTED" /\ log[j].stepRunId = log[i].stepRunId

\* C6: every run whose status is SUCCEEDED or FAILED has startedAt and
\* finishedAt set.
C6_TerminalRunTimestamps ==
  \A run \in Runs :
    Terminal(run.status) => run.startedAt # Null /\ run.finishedAt # Null

\* a run that was set RUNNING by one pass and FAILED later
C6_Witness ==
  \E run \in Runs :
    run.status = "FAILED" /\ run.startedAt # Null /\ run.finishedAt > run.startedAt

\* C7: when a run is SUCCEEDED, every StepRun created for it has status SUCCEEDED.
C7_SucceededRunSteps ==
  \A run \in Runs :
    run.status = "SUCCEEDED"
      => \A id \in created[run.id] :
           \E s \in StepRunsOf(run.id) : s.id = id /\ s.status = "SUCCEEDED"

\* C8: when a run is SUCCEEDED or FAILED, none of its StepRuns is RUNNING.
C8_TerminalRunNoRunningStep ==
  \A run \in Runs :
    Terminal(run.status)
      => \A s \in StepRunsOf(run.id) : s.status \in {"SUCCEEDED", "FAILED", "PENDING"}

\* C9: after completeManualStep(stepRunId, success) has returned, a second call
\* with the same arguments returns the StepRun the first returned and changes
\* nothing; and a call on a StepRun that is SUCCEEDED or FAILED changes nothing.
\* Stated for the StepRuns that are still stored.
C9_CompleteIdempotent ==
  /\ \A c \in calls :
       c.pc = "returned" /\ getStepRunById(db, c.stepRunId) # <<>>
         => LET again == completeManualStep(State, c.stepRunId, c.success)
            IN again.returned /\ ~again.threw /\ again.value = c.value /\ again.S = State
  /\ \A s \in SeqToSet(db.step_runs), success \in BOOLEAN :
       Terminal(s.status) => completeManualStep(State, s.id, success).S = State

\* C10: after completeManualStep(stepRunId, true) the run goes on: once nothing
\* of the run is in flight any more (no execute task, no suspended call), the
\* run is SUCCEEDED or FAILED, or it waits at a PENDING MANUAL StepRun.
\* Stated for the runs whose StepRuns are all still stored.
C10_ResumeReachesPauseOrEnd ==
  \A c \in calls :
    c.success /\ Quiescent(c.workflowRunId) /\ Intact(c.workflowRunId)
      => \/ \E run \in Runs : run.id = c.workflowRunId /\ Terminal(run.status)
         \/ PendingManual(c.workflowRunId) # {}

\* the log of run r, as listEvents returns it
LogOf(d, r) == listEvents(d, r)

\* the step appends "Manual step ... awaiting completion" to the log of run r
\* for a StepRun that is PENDING: a pass has reached a MANUAL step
ManualPauseOf(r) ==
  /\ Len(LogOf(db', r)) > Len(LogOf(db, r))
  /\ LET ev == LogOf(db', r)[Len(LogOf(db', r))]
     IN /\ ev.message = "Manual step awaiting completion"
        /\ \E s \in StepRunsOf(r) : s.id = ev.stepRunId /\ s.status = "PENDING"

\* C11: a pass that reaches a MANUAL step whose StepRun is PENDING appends one
\* STEP_STARTED event for that StepRun and nothing else, changes no StepRun (the
\* StepRun stays PENDING, no later step is started), leaves the run RUNNING, and
\* the task ends; when the task is gone the run is out of the active set, and
\* from then on the statuses and the log of the run change only by a step of
\* completeManualStep.
C11_ManualPause ==
  [][\A r \in RunIds :
       /\ ManualPauseOf(r)
            => /\ LogOf(db', r) = Append(LogOf(db, r), LogOf(db', r)[Len(LogOf(db', r))])
               /\ LogOf(db', r)[Len(LogOf(db', r))].type = "STEP_STARTED"
               /\ db'.step_runs = db.step_runs
               /\ getRun(db', r)[1].status = "RUNNING"
               /\ \A k \in 1..Len(tasks'[r]) : tasks'[r][k].pc = "settled"
       /\ tasks[r] # <<>> /\ tasks'[r] = <<>> => r \notin activeRuns'
       /\ Quiescent(r) /\ r \notin activeRuns
            => \/ \E c \in calls' \ calls : c.workflowRunId = r
               \/ /\ getRun(db', r) = getRun(db, r)
                  /\ \A s \in SeqToSet(listStepRuns(db', r)) :
                       s \in SeqToSet(listStepRuns(db, r))
                  /\ Len(LogOf(db', r)) <= Len(LogOf(db, r))]_vars

\* a run waits at a MANUAL step: its task is gone, the run is RUNNING, the
\* StepRun of the MANUAL step is PENDING and the log ends with its STEP_STARTED
C11_Witness ==
  \E r \in RunIds :
    /\ Quiescent(r) /\ r \notin activeRuns
    /\ getRun(db, r)[1].status = "RUNNING"
    /\ LogOf(db, r)[Len(LogOf(db, r))].message = "Manual step awaiting completion"
    /\ \E s \in PendingManual(r) : s.id = LogOf(db, r)[Len(LogOf(db, r))].stepRunId

\* the types of the events of a log
TypesOf(log) == [i \in 1..Len(log) |-> log[i].type]

\* the StepRun the task t is executing, as the pass loaded it
StepRunInProgress(t) == lookupStepRun(t.stepRunMap, t.steps[t.i].id)[1]

\* C12: when the handler of a DELAY/HTTP step fails, the StepRun becomes FAILED,
\* STEP_FAILED then RUN_FAILED are appended, the run becomes FAILED, no other
\* StepRun changes, the error stays inside the pass (execute goes on at line
\* 71), and the pass then ends without starting a later step.
C12_AutomatedFailure ==
  \A r \in RunIds : \A k \in 1..Len(tasks[r]) :
    tasks[r][k].pc = "handler" /\ "throw" \in HandlerOutcomes(tasks[r][k].steps[tasks[r][k].i])
      => LET t == tasks[r][k]
             sr == StepRunInProgress(t)
             S2 == runNonManualStepCatch(State, r, k, t, sr)
             S3 == executeAfterStep(S2, r, k, S2.tasks[r][k])
         IN /\ getStepRunById(S2.db, sr.id) # <<>>
            /\ getStepRunById(S2.db, sr.id)[1].status = "FAILED"
            /\ \A s \in SeqToSet(db.step_runs) :
                 s.id # sr.id => getStepRunById(S2.db, s.id) = <<s>>
            /\ Len(LogOf(S2.db, r)) = Len(LogOf(db, r)) + 2
            /\ SubSeq(LogOf(S2.db, r), 1, Len(LogOf(db, r))) = LogOf(db, r)
            /\ SubSeq(TypesOf(LogOf(S2.db, r)), Len(LogOf(db, r)) + 1, Len(LogOf(db, r)) + 2)
                 = <<"STEP_FAILED", "RUN_FAILED">>
            /\ LogOf(S2.db, r)[Len(LogOf(db, r)) + 1].stepRunId = sr.id
            /\ getRun(S2.db, r)[1].status = "FAILED"
            /\ S2.tasks[r][k].pc = "afterStep"
            /\ S3.db = S2.db
            /\ S3.tasks[r][k].pc = "settled"

\* run r is paused at the StepRun s of a MANUAL step: a pass has appended the
\* "awaiting completion" event for s and ended, s is PENDING, the run RUNNING
PausedAt(r, s) ==
  /\ Quiescent(r) /\ r \notin activeRuns
  /\ getRun(db, r)[1].status = "RUNNING"
  /\ s \in PendingManual(r)
  /\ \E i \in 1..Len(LogOf(db, r)) :
       /\ LogOf(db, r)[i].stepRunId = s.id
       /\ LogOf(db, r)[i].message = "Manual step awaiting completion"

StepOf(s) == SelectSeq(db.workflow_steps, LAMBDA st: st.id = s.workflowStepId)

\* run r was started on a workflow of two automated steps and only startRun and
\* its pass have acted on it: no completeManualStep call, no StepRun deleted
PlainTwoStepRun(r) ==
  /\ Cardinality(created[r]) = 2
  /\ Intact(r)
  /\ \A s \in StepRunsOf(r) : StepOf(s) # <<>> /\ StepOf(s)[1].type \in {"DELAY", "HTTP"}
  /\ \A c \in calls : c.workflowRunId # r

\* C14 as stated: such a run, once SUCCEEDED, has the six events RUN_STARTED,
\* STEP_STARTED, STEP_SUCCEEDED, STEP_STARTED, STEP_SUCCEEDED, RUN_SUCCEEDED.
C14_HappyRunSixEvents ==
  \A r \in RunIds :
    PlainTwoStepRun(r) /\ getRun(db, r)[1].status = "SUCCEEDED"
      => TypesOf(LogOf(db, r)) =
           <<"RUN_STARTED", "STEP_STARTED", "STEP_SUCCEEDED",
             "STEP_STARTED", "STEP_SUCCEEDED", "RUN_SUCCEEDED">>

\* C14 amended: when the pass of such a run has ended and no step failed, the
\* run is SUCCEEDED; and when the run is SUCCEEDED the log has seven events,
\* RUN_STARTED ("Run enqueued", by startRun), RUN_STARTED ("Run started", by the
\* pass), then STEP_STARTED, STEP_SUCCEEDED of the first StepRun, STEP_STARTED,
\* STEP_SUCCEEDED of the second, RUN_SUCCEEDED.
C14_HappyRunSevenEvents ==
  \A r \in RunIds :
    /\ (/\ PlainTwoStepRun(r) /\ Quiescent(r) /\ r \notin activeRuns
        /\ \A i \in 1..Len(LogOf(db, r)) : LogOf(db, r)[i].type # "STEP_FAILED")
         => getRun(db, r)[1].status = "SUCCEEDED"
    /\ PlainTwoStepRun(r) /\ getRun(db, r)[1].status = "SUCCEEDED"
      => LET log == LogOf(db, r)
             first == CHOOSE s \in StepRunsOf(r) : \A o \in StepRunsOf(r) : s.id <= o.id
             second == CHOOSE s \in StepRunsOf(r) : \A o \in StepRunsOf(r) : s.id >= o.id
         IN /\ TypesOf(log) =
                 <<"RUN_STARTED", "RUN_STARTED", "STEP_STARTED", "STEP_SUCCEEDED",
                   "STEP_STARTED", "STEP_SUCCEEDED", "RUN_SUCCEEDED">>
            /\ log[1].message = "Run enqueued" /\ log[2].message = "Run started"
            /\ log[3].stepRunId = first.id /\ log[4].stepRunId = first.id
            /\ log[5].stepRunId = second.id /\ log[6].stepRunId = second.id
            /\ \A s \in StepRunsOf(r) : s.status = "SUCCEEDED"

\* a run of two automated steps, untouched by other calls, has ended SUCCEEDED
\* and its pass is gone
C14_Witness ==
  \E r \in RunIds :
    /\ PlainTwoStepRun(r) /\ getRun(db, r)[1].status = "SUCCEEDED"
    /\ Quiescent(r) /\ r \notin activeRuns
    /\ Len(LogOf(db, r)) = 7

\* the step appends a RUN_STARTED event to the log of run r
AppendsRunStarted(r) ==
  \E i \in (Len(LogOf(db, r)) + 1)..Len(LogOf(db', r)) : LogOf(db', r)[i].type = "RUN_STARTED"

\* C15: a pass sets the run RUNNING and appends RUN_STARTED only when the run is
\* PENDING as the pass starts: a step that appends RUN_STARTED to the log of a
\* stored run, or sets its status from another status to RUNNING, finds the run
\* PENDING (so nothing of the kind follows completeManualStep(manual, true)).
C15_RunStartedOnlyIfPending ==
  [][\A r \in RunIds :
       \/ AppendsRunStarted(r)
       \/ getRun(db, r)[1].status # "RUNNING" /\ getRun(db', r)[1].status = "RUNNING"
       => getRun(db, r)[1].status = "PENDING"]_vars

\* a run started on a workflow with zero steps: RUNNING with the two RUN_STARTED
\* events while its pass is at work, then SUCCEEDED with RUN_SUCCEEDED appended;
\* no step event; once the task is gone the run is SUCCEEDED and out of the
\* active set
ZeroStepRunOk(r) ==
  LET run == getRun(db, r)[1]
      types == TypesOf(LogOf(db, r))
  IN /\ StepRunsOf(r) = {}
     /\ run.startedAt # Null
     /\ \/ /\ run.status = "RUNNING" /\ run.finishedAt = Null
           /\ types = <<"RUN_STARTED", "RUN_STARTED">>
           /\ tasks[r] # <<>>
        \/ /\ run.status = "SUCCEEDED" /\ run.finishedAt # Null
           /\ types = <<"RUN_STARTED", "RUN_STARTED", "RUN_SUCCEEDED">>
     /\ tasks[r] = <<>> => r \notin activeRuns

\* C16: startRun on a workflow with zero steps returns the run as it was created
\* (PENDING), the run is RUNNING and then SUCCEEDED, its log holds RUN_STARTED
\* and RUN_SUCCEEDED events and no step event, and when its pass is gone the run
\* is SUCCEEDED and not in the active set.
C16_ZeroSteps ==
  /\ [](\A r \in RunIds : created[r] = {} => ZeroStepRunOk(r))
  /\ [](\A w \in WorkflowIdInputs :
          getWorkflow(db, w) # <<>> /\ listWorkflowSteps(db, w) = <<>>
            => LET res == startRun(State, w)
               IN ~res.threw /\ res.value[1].status = "PENDING")
  /\ [][\A r \in RunIds :
          created[r] = {} /\ getRun(db', r)[1].status # getRun(db, r)[1].status
            => getRun(db, r)[1].status = "RUNNING" /\ getRun(db', r)[1].status = "SUCCEEDED"]_vars

\* a run of a workflow with zero steps has ended: SUCCEEDED, three events, its
\* task gone and the run out of the active set
C16_Witness ==
  \E r \in RunIds :
    /\ created[r] = {}
    /\ getRun(db, r)[1].status = "SUCCEEDED"
    /\ Len(LogOf(db, r)) = 3
    /\ tasks[r] = <<>> /\ r \notin activeRuns

\* C17: no step deletes or re-points a StepRun of a run that is not SUCCEEDED or
\* FAILED: each StepRun of such a run is still stored after the step, under the
\* same run and the same workflowStepId (updateWorkflow included).
C17_UpdateKeepsStepRuns ==
  [][\A r \in RunIds :
       ~Terminal(getRun(db, r)[1].status)
         => \A s \in StepRunsOf(r) :
              /\ getStepRunById(db', s.id) # <<>>
              /\ getStepRunById(db', s.id)[1].workflowRunId = r
              /\ getStepRunById(db', s.id)[1].workflowStepId = s.workflowStepId]_vars

\* C18: completeManualStep with a stepRunId no stored StepRun has (never handed
\* out, or deleted) ends with an error and leaves the state as it is: the Store,
\* the active set, the tasks, the calls in flight, the unpublished changes.
C18_UnknownStepRun ==
  \A id \in StepRunIdInputs, success \in BOOLEAN :
    getStepRunById(db, id) = <<>>
      => LET res == completeManualStep(State, id, success)
         IN res.threw /\ res.S = State

\* a run is at work, one of the StepRuns made for it is no longer stored, and
\* completeManualStep on its id throws
C18_Witness ==
  \E r \in RunIds : \E id \in created[r] :
    /\ tasks[r] # <<>>
    /\ getStepRunById(db, id) = <<>>
    /\ completeManualStep(State, id, TRUE).threw

\* C19: startRun with a workflowId no stored workflow has ends with an error and
\* leaves the state as it is: no WorkflowRun, no StepRun, no event, no task, no
\* entry of the active set.
C19_UnknownWorkflow ==
  \A w \in WorkflowIdInputs :
    getWorkflow(db, w) = <<>>
      => LET res == startRun(State, w)
         IN /\ res.threw
            /\ res.S = State
            /\ Len(res.S.db.workflow_runs) = Len(db.workflow_runs)
            /\ Len(res.S.db.step_runs) = Len(db.step_runs)
            /\ res.S.db.events = db.events
            /\ res.S.tasks = tasks /\ res.S.activeRuns = activeRuns

\* workflows and a run at work exist, and startRun on an id that was never
\* handed out throws
C19_Witness ==
  /\ db.workflows # <<>>
  /\ \E r \in RunIds : tasks[r] # <<>>
  /\ getWorkflow(db, db.nextWorkflowId) = <<>>
  /\ startRun(State, db.nextWorkflowId).threw

\* C20: every change of a run's or StepRun's status and every appended event is
\* followed by a publish on the run's topic before the operation or scheduling
\* task that made it ends: once no task of a run is at work, the run has no
\* change that was not published, and a FAILED run in particular has none.
C20_ChangesPublished ==
  \A r \in RunIds : Quiescent(r) => r \notin dirty

\* C21: once a StepRun's status is SUCCEEDED or FAILED no step changes it for as
\* long as the StepRun is stored, a step of a pass that loaded the StepRuns
\* before completeManualStep changed that StepRun included.
C21_StepRunTerminalAbsorbing ==
  [][\A s \in SeqToSet(db.step_runs) :
       Terminal(s.status) /\ getStepRunById(db', s.id) # <<>>
         => getStepRunById(db', s.id)[1].status = s.status]_vars

\* C22: the log of a run only grows by suffix extension: no step of
\* createWorkflow, updateWorkflow, startRun, a pass or completeManualStep
\* removes or alters an event of a run's log.
C22_LogAppendOnly ==
  [][\A r \in RunIds :
       /\ Len(LogOf(db', r)) >= Len(LogOf(db, r))
       /\ SubSeq(LogOf(db', r), 1, Len(LogOf(db, r))) = LogOf(db, r)]_vars

\* C23: a status update never overwrites a timestamp that is set: for every run
\* and every stored StepRun, a startedAt that is not null and a finishedAt that
\* is not null keep their value through every step (a repeated RUNNING or
\* terminal update included).
C23_TimestampsKept ==
  [][/\ \A i \in 1..Len(db.workflow_runs) :
          LET old == db.workflow_runs[i]
              new == db'.workflow_runs[i]
          IN /\ old.startedAt # Null => new.startedAt = old.startedAt
             /\ old.finishedAt # Null => new.finishedAt = old.finishedAt
     /\ \A s \in SeqToSet(db.step_runs) :
          getStepRunById(db', s.id) # <<>>
            => LET new == getStepRunById(db', s.id)[1]
               IN /\ s.startedAt # Null => new.startedAt = s.startedAt
                  /\ s.finishedAt # Null => new.finishedAt = s.finishedAt]_vars

\* a second pass has set a run RUNNING again (two "Run started" events) and the
\* run still has the startedAt the first pass gave it (the clock of a run with
\* no event deleted is the index of the next event of its log)
C23_Witness ==
  /\ \E r \in RunIds : \E i, j \in 1..Len(LogOf(db, r)) :
       /\ Intact(r) /\ i < j
       /\ LogOf(db, r)[i].message = "Run started" /\ LogOf(db, r)[j].message = "Run started"
       /\ getRun(db, r)[1].startedAt = i

\* the step lists updateWorkflow(w, ..) is called with for the round trip: the
\* lists of UpdateLists and the empty list, each step without an id or with the
\* id of a stored step (of w or of another workflow)
RoundTripInputs ==
  UNION { { [i \in 1..Len(list) |-> [list[i] EXCEPT !.id = ids[i]]] :
              ids \in [1..Len(list) -> {Null} \cup {s.id : s \in SeqToSet(db.workflow_steps)}] } :
          list \in UpdateLists \cup {<<>>} }

DistinctOrders(steps) ==
  \A i, j \in 1..Len(steps) : i # j => steps[i].order # steps[j].order

\* out holds the steps of the list given, one for one, under workflow w, in
\* ascending order; cfg(c) is the config a step given with config c comes back with
SameSteps(out, w, steps, cfg(_)) ==
  /\ Len(out) = Len(steps)
  /\ \A i, j \in 1..Len(out) : i < j => out[i].order < out[j].order
  /\ \A i \in 1..Len(out) : out[i].workflowId = w
  /\ \A k \in 1..Len(steps) : \E i \in 1..Len(out) :
       /\ out[i].name = steps[k].name /\ out[i].type = steps[k].type
       /\ out[i].order = steps[k].order /\ out[i].config = cfg(steps[k].config)
       /\ steps[k].id # Null => out[i].id = steps[k].id

\* C24 as stated: updateWorkflow(w, steps) on an existing workflow with steps of
\* distinct order, followed by getWorkflow(w), returns the steps given (name,
\* kind, config, order, and the id where one was given) in ascending order.
C24_UpdateRoundTrip ==
  \A w \in WorkflowIdInputs, steps \in RoundTripInputs :
    getWorkflow(db, w) # <<>> /\ DistinctOrders(steps)
      => LET res == updateWorkflowMutation(State, w, steps)
         IN /\ ~res.threw
            /\ SameSteps(listWorkflowSteps(res.S.db, w), w, steps, LAMBDA c: c)
            /\ res.value = listWorkflowSteps(res.S.db, w)

\* the ids given are distinct and none is the id of a step of another workflow
IdsFree(w, steps) ==
  /\ \A i, j \in 1..Len(steps) : i # j /\ steps[i].id # Null => steps[i].id # steps[j].id
  /\ \A i \in 1..Len(steps) : \A s \in SeqToSet(db.workflow_steps) :
       s.id = steps[i].id => s.workflowId = w

\* C24 amended: when the ids given are distinct and none is the id of a step of
\* another workflow, updateWorkflow(w, steps) followed by getWorkflow(w) returns
\* the steps given, in ascending order, none of the previous steps remaining,
\* with the config given, or {} for a step given without config.
C24_UpdateRoundTripDefaults ==
  \A w \in WorkflowIdInputs, steps \in RoundTripInputs :
    getWorkflow(db, w) # <<>> /\ DistinctOrders(steps) /\ IdsFree(w, steps)
      => LET res == updateWorkflowMutation(State, w, steps)
         IN /\ ~res.threw
            /\ SameSteps(listWorkflowSteps(res.S.db, w), w, steps,
                         LAMBDA c: IF c = "undefined" THEN "{}" ELSE c)
            /\ res.value = listWorkflowSteps(res.S.db, w)

\* updateWorkflow has replaced the steps of a workflow (step ids are missing
\* from the table) by a list given in descending order: it is read in ascending
\* order, and the step given without config has config {}
C24_Witness ==
  \E w \in WorkflowIdInputs :
    LET out == listWorkflowSteps(db, w)
    IN /\ getWorkflow(db, w) # <<>>
       /\ db.nextStepId > Len(db.workflow_steps) + 1
       /\ Len(out) = 2 /\ out[1].order < out[2].order /\ out[1].id > out[2].id
       /\ out[2].config = "{}"
       /\ \E steps \in RoundTripInputs :
            /\ Len(steps) = 2 /\ IdsFree(w, steps) /\ steps[1].id # Null
            /\ ~updateWorkflowMutation(State, w, steps).threw

\* the step starts a pass of run r: enqueueRun calls execute(r)
StartsPass(r) == Len(tasks'[r]) > Len(tasks[r])

\* C25: a pass that starts on a run whose status is SUCCEEDED or FAILED exits at
\* once: the step that starts it changes neither the run nor a StepRun of it,
\* appends no event, and the new task has ended.
C25_PassOnTerminalRunExits ==
  [][\A r \in RunIds :
       StartsPass(r) /\ Terminal(getRun(db, r)[1].status)
         => /\ getRun(db', r) = getRun(db, r)
            /\ listStepRuns(db', r) = listStepRuns(db, r)
            /\ LogOf(db', r) = LogOf(db, r)
            /\ tasks'[r][Len(tasks'[r])].pc = "settled"]_vars

\* the run ids a behaviour can hand out
RunIdBound == 1..MaxOps

\* a task of run r has ended (returned or thrown) and is not cleaned up yet
TaskEnded(r) == r \in RunIds /\ \E k \in 1..Len(tasks[r]) : tasks[r][k].pc = "settled"

\* C26: a run id is in the active set only while a task of the run is in flight;
\* when a task has ended (terminal run, manual pause, run or workflow absent, an
\* error of the Store) the run id is eventually out of the active set; and an
\* enqueueRun of a run that is not in the active set starts a task.
C26_ActiveSetRelease ==
  /\ [](\A r \in RunIds : r \in activeRuns => tasks[r] # <<>>)
  /\ [](\A r \in RunIds :
          r \notin activeRuns
            => LET S1 == enqueueRun(State, r)
               IN Len(S1.tasks[r]) = Len(tasks[r]) + 1 /\ r \in S1.activeRuns)
  /\ \A r \in RunIdBound : TaskEnded(r) ~> (r \notin activeRuns)

\* a run was released after its first pass, a later enqueueRun started a second
\* pass (two "Run started" events), and the run is released again
C26_Witness ==
  \E r \in RunIds :
    /\ r \notin activeRuns /\ tasks[r] = <<>>
    /\ Cardinality({i \in 1..Len(LogOf(db, r)) : LogOf(db, r)[i].message = "Run started"}) = 2

\* C27: at most one StepRun of a run is RUNNING in every reachable state.
C27_OneRunningStepRunPerRun ==
  \A r \in RunIds : Cardinality({s \in StepRunsOf(r) : s.status = "RUNNING"}) <= 1

\* two runs are at work at the same time, each with one StepRun RUNNING, and one
\* of them is at its second step, the first SUCCEEDED
C27_Witness ==
  \E r1, r2 \in RunIds :
    /\ r1 # r2
    /\ \E s \in StepRunsOf(r1) : s.status = "RUNNING"
    /\ \E s \in StepRunsOf(r2) : s.status = "RUNNING"
    /\ \E s \in StepRunsOf(r1) : s.status = "SUCCEEDED"

\* createRun(w) on the Store as it is: a PENDING run with null timestamps, and
\* for every step the workflow has now exactly one StepRun of the new run,
\* PENDING with null timestamps, and no other StepRun of the new run
CreateRunOk(w) ==
  LET id == db.nextRunId
      d1 == createRun(db, w)
      run == getRun(d1, id)
      stepRuns == SeqToSet(listStepRuns(d1, id))
      steps == SeqToSet(listWorkflowSteps(db, w))
  IN /\ Len(run) = 1 /\ run[1].workflowId = w /\ run[1].status = "PENDING"
     /\ run[1].startedAt = Null /\ run[1].finishedAt = Null
     /\ \A st \in steps : Cardinality({s \in stepRuns : s.workflowStepId = st.id}) = 1
     /\ \A s \in stepRuns :
          /\ \E st \in steps : st.id = s.workflowStepId
          /\ s.status = "PENDING" /\ s.startedAt = Null /\ s.finishedAt = Null
          /\ getStepRunById(db, s.id) = <<>>
     /\ \A s \in SeqToSet(db.step_runs) : getStepRunById(d1, s.id) = <<s>>

\* C28: createRun on an existing workflow makes a PENDING run with null
\* timestamps and one PENDING StepRun with null timestamps per step the workflow
\* has at that moment; no later step makes a StepRun for a run that exists; and
\* in every reachable state a run has at most one StepRun per workflowStepId.
C28_StepRunsMadeWithRun ==
  /\ [](\A w \in WorkflowIdInputs : getWorkflow(db, w) # <<>> => CreateRunOk(w))
  /\ [](\A r \in RunIds : \A s1, s2 \in StepRunsOf(r) :
          s1.workflowStepId = s2.workflowStepId => s1 = s2)
  /\ [][\A r \in RunIds : \A s \in SeqToSet(listStepRuns(db', r)) :
          getStepRunById(db, s.id) # <<>>]_vars

\* a run made for a workflow of three steps has its three StepRuns, one of them
\* SUCCEEDED by now, after its pass has ended
C28_Witness ==
  \E r \in RunIds :
    /\ Cardinality(StepRunsOf(r)) = 3 /\ Intact(r)
    /\ \E s \in StepRunsOf(r) : s.status = "SUCCEEDED"
    /\ tasks[r] = <<>>

\* run r exists, every StepRun made for it is stored (its workflow was not
\* edited since) and every one belongs to a DELAY or HTTP step
AutomatedRun(r) ==
  /\ r \in RunIds /\ Intact(r)
  /\ \A s \in StepRunsOf(r) : StepOf(s) # <<>> /\ StepOf(s)[1].type \in {"DELAY", "HTTP"}

\* run r is SUCCEEDED or FAILED and out of the active set
Ended(r) ==
  /\ r \in RunIds
  /\ Terminal(getRun(db, r)[1].status) /\ r \notin activeRuns /\ tasks[r] = <<>>

\* C29: a run of a workflow with no MANUAL step eventually is SUCCEEDED or
\* FAILED and out of the active set, unless its workflow is edited (an edit
\* deletes the run's StepRuns, for good).
C29_AutomatedRunsEnd ==
  \A r \in RunIdBound : AutomatedRun(r) ~> (~AutomatedRun(r) \/ Ended(r))

\* a run of automated steps has ended FAILED through a handler that failed, no
\* completeManualStep call involved, and is out of the active set
C29_Witness ==
  \E r \in RunIds :
    /\ AutomatedRun(r) /\ created[r] # {} /\ Ended(r)
    /\ getRun(db, r)[1].status = "FAILED"
    /\ \A c \in calls : c.workflowRunId # r
    /\ LogOf(db, r)[Len(LogOf(db, r))].message = "Run failed"

\* C30 as stated: every StepRun whose status is SUCCEEDED or FAILED has
\* startedAt and finishedAt set, those of MANUAL steps included.
C30_TerminalStepRunTimestamps ==
  \A s \in SeqToSet(db.step_runs) :
    Terminal(s.status) => s.startedAt # Null /\ s.finishedAt # Null

\* a pass has started the StepRun s: runNonManualStep set it RUNNING and
\* appended "Step started" for it
StartedByPass(s) ==
  \E i \in 1..Len(LogOf(db, s.workflowRunId)) :
    /\ LogOf(db, s.workflowRunId)[i].stepRunId = s.id
    /\ LogOf(db, s.workflowRunId)[i].message = "Step started"

\* C30 amended: every StepRun whose status is SUCCEEDED or FAILED has finishedAt
\* set; its startedAt is set when a pass has set it RUNNING and null when none
\* has, as for every StepRun of a MANUAL step completed through
\* completeManualStep.
C30_TerminalStepRunFinished ==
  \A s \in SeqToSet(db.step_runs) :
    /\ Terminal(s.status) => s.finishedAt # Null
    /\ s.startedAt # Null <=> StartedByPass(s)
    /\ StepOf(s) # <<>> /\ StepOf(s)[1].type = "MANUAL" => s.startedAt = Null

\* a run has passed its MANUAL step: the StepRun of the MANUAL step is SUCCEEDED
\* with finishedAt set and startedAt null, and a StepRun of an automated step is
\* SUCCEEDED with both set
C30_Witness ==
  \E r \in RunIds : \E m, a \in StepRunsOf(r) :
    /\ StepOf(m) # <<>> /\ StepOf(m)[1].type = "MANUAL"
    /\ m.status = "SUCCEEDED" /\ m.finishedAt # Null /\ m.startedAt = Null
    /\ \E c \in calls : c.stepRunId = m.id /\ c.pc = "returned"
    /\ a.status = "SUCCEEDED" /\ a.finishedAt # Null /\ a.startedAt # Null

\* the step starts the StepRun s of run r: the Executor sets it RUNNING, or
\* appends "Manual step awaiting completion" for it
StartsStepRun(r, s) ==
  \/ /\ s.status # "RUNNING"
     /\ getStepRunById(db', s.id) # <<>>
     /\ getStepRunById(db', s.id)[1].status = "RUNNING"
  \/ /\ Len(LogOf(db', r)) > Len(LogOf(db, r))
     /\ LogOf(db', r)[Len(LogOf(db', r))].message = "Manual step awaiting completion"
     /\ LogOf(db', r)[Len(LogOf(db', r))].stepRunId = s.id

\* C31: whenever the Executor starts a StepRun (sets it RUNNING, or appends the
\* "awaiting completion" event of a MANUAL step), every StepRun of the same run
\* that belongs to a step of smaller order is SUCCEEDED.
C31_StepsInOrder ==
  [][\A r \in RunIds : \A s \in StepRunsOf(r) :
       StartsStepRun(r, s)
         => \A o \in StepRunsOf(r) :
              StepOf(o) # <<>> /\ StepOf(s) # <<>> /\ StepOf(o)[1].order < StepOf(s)[1].order
                => /\ o.status = "SUCCEEDED"
                   /\ getStepRunById(db', o.id) = <<o>>]_vars

\* a run of a workflow created with its steps given in descending order is at
\* its last step: that StepRun has been started (RUNNING, or PENDING with the
\* "awaiting completion" event) and the StepRun of the step before is SUCCEEDED
C31_Witness ==
  \E r \in RunIds : \E s, o \in StepRunsOf(r) :
    /\ StepOf(o) # <<>> /\ StepOf(s) # <<>>
    /\ StepOf(o)[1].order < StepOf(s)[1].order /\ StepOf(o)[1].id > StepOf(s)[1].id
    /\ o.status = "SUCCEEDED"
    /\ \E i \in 1..Len(LogOf(db, r)) :
         LogOf(db, r)[i].stepRunId = s.id /\ LogOf(db, r)[i].type = "STEP_STARTED"

\* the step is a completeManualStep call on the StepRun s that went past the
\* checks of lines 128-130
CompletesStepRun(s) ==
  \E c \in calls' \ calls : c.stepRunId = s.id /\ c.pc = "published"

\* C32: completeManualStep changes a status only when called on the StepRun of a
\* MANUAL step at which its run is paused; a call on any other stored StepRun
\* (one of a DELAY or HTTP step, or one of a MANUAL step the run is not paused
\* at) leaves the StepRuns, the runs and the event logs as they are.
C32_CompleteOnlyPausedManual ==
  [][\A s \in SeqToSet(db.step_runs) :
       /\ CompletesStepRun(s)
       /\ ~(/\ StepOf(s) # <<>> /\ StepOf(s)[1].type = "MANUAL"
            /\ PausedAt(s.workflowRunId, s))
       => /\ db'.step_runs = db.step_runs
          /\ db'.workflow_runs = db.workflow_runs
          /\ db'.events = db.events]_vars

\* the step is one of a scheduling pass of run a, or one of a completeManualStep
\* call on a StepRun of run a
StepOfRun(a) ==
  \/ \E k \in 1..Len(tasks[a]) :
       \/ ExecuteLoadSteps(a, k)
       \/ \E o \in {"ok", "throw"} : ExecuteHandler(a, k, o)
       \/ ExecuteAfterStep(a, k)
       \/ ExecuteFinally(a, k)
  \/ \E s \in StepRunsOf(a), success \in BOOLEAN : CompleteManualStep(s.id, success)
  \/ \E c \in calls :
       /\ c.workflowRunId = a
       /\ CompleteManualStepFinish(c) \/ CompleteManualStepReturn(c)

\* the row, the StepRuns and the event log of run b are the same after the step
RunUnchanged(b) ==
  /\ getRun(db', b) = getRun(db, b)
  /\ listStepRuns(db', b) = listStepRuns(db, b)
  /\ LogOf(db', b) = LogOf(db, b)

\* enqueueRun(b) starts a task for b and marks b active
EnqueueStarts(b) ==
  LET S == enqueueRun(State, b)
  IN /\ b \in S.activeRuns
     /\ Len(S.tasks[b]) = Len(tasks[b]) + 1
     /\ S.activeRuns \ {b} = activeRuns
     /\ \A a \in RunIds \ {b} : S.tasks[a] = tasks[a]

====
